---- MODULE Spec2Model ----
(***************************************************************************)
(* A state-machine model of moses/vae/model.py: construction of the VAE,   *)
(* the training forward pass (forward, forward_encoder, forward_decoder,   *)
(* compute_loss) and the autoregressive sampler (sample, tensor2string).   *)
(*                                                                         *)
(* The numeric tensors (embeddings, hidden state h, logits y, latent z)    *)
(* are not represented: the only thing the sampler's control flow reads    *)
(* from them is the token vector w drawn by torch.multinomial, which is    *)
(* modelled as a nondeterministic choice over the vocabulary.              *)
(*                                                                         *)
(* Buffers keep the source's 0-based positions: x[b] is a function on      *)
(* 0..max_len-1.  Batch rows are numbered 1..n_batch.                      *)
(***************************************************************************)
EXTENDS Integers, Sequences, FiniteSets, TLC

VARIABLES
    pc,         \* position of the driver: which call is running and where
    q_cell,     \* config.q_cell
    d_cell,     \* config.d_cell
    built,      \* TRUE once VAE.__init__ has returned a model object
    error,      \* the exception raised, "" if none
    \* ---- VAE.sample ----
    n_batch,    \* argument n_batch
    max_len,    \* argument max_len
    i,          \* loop variable of the generating cycle (next value to run)
    w,          \* current token per row
    x,          \* token buffer per row
    end_pads,   \* recorded end position per row
    eos_mask,   \* ended flag per row
    new_x,      \* truncated buffers handed to tensor2string
    out,        \* the returned list of strings
    draws,      \* history: the vector w drawn at each executed step
    \* ---- a driver that samples a batch jointly, then row by row ----
    sid,        \* 0 in a joint call, else the row being sampled alone
    joint,      \* <<>> or <<result of the joint call>>
    solo,       \* results of the single-row calls, in row order
    \* ---- VAE.forward ----
    fx,         \* argument x: list of token-id sequences
    xpad,       \* forward_decoder's padded batch
    pred,       \* shape of forward_decoder's result y: <<rows, columns>>
    kl_loss,    \* "none" or "scalar"
    recon_loss, \* "none" or "scalar"
    contrib,    \* (row, position) pairs that entered the cross entropy
    \* ---- VAE.load_lbann_weights ----
    layers,     \* the config's layer counts, widths and direction flag
    weights_dir,\* the files of weights_dir, in the order glob lists them
    epoch_count,\* argument epoch_count
    lstep,      \* number of the next tensor to load, in the order of the code
    params      \* per parameter tensor: <<>> or <<the file copied into it>>

vars == <<pc, q_cell, d_cell, built, error, n_batch, max_len, i, w, x,
          end_pads, eos_mask, new_x, out, draws, sid, joint, solo,
          fx, xpad, pred, kl_loss, recon_loss, contrib,
          layers, weights_dir, epoch_count, lstep, params>>

sampleVars  == <<n_batch, max_len, i, w, x, end_pads, eos_mask, new_x, out, draws>>
driverVars  == <<sid, joint, solo>>
forwardVars == <<fx, xpad, pred, kl_loss, recon_loss, contrib>>
configVars  == <<q_cell, d_cell, built>>
loadVars    == <<layers, weights_dir, epoch_count, lstep, params>>

(***************************************************************************)
(* Bounds of the model.                                                    *)
(***************************************************************************)
\* a call of sample draws at most this many tokens: n_batch * (max_len - 1)
MaxDraws == 6
\* longest content (between bos and eos) of a training sentence
MaxContent == 2
\* largest training batch
MaxFwdBatch == 2
\* as MaxDraws, for the calls checked under fairness
MaxFairDraws == 4
\* largest batch the joint-then-alone driver samples
MaxJointBatch == 3
\* most recurrent layers of the encoder and of the decoder
MaxLayers == 2

(***************************************************************************)
(* The vocabulary's special symbols, copied into the model at              *)
(* construction, and its size.                                             *)
(***************************************************************************)
bos == 0
eos == 1
pad == 2
unk == 3
n_vocab == 5

Tokens == 0..(n_vocab - 1)
\* ids a sentence's characters can have: string2ids yields unk or a character
ContentTokens == Tokens \ {bos, eos, pad}

CellTypes == {"gru", "lstm", "rnn"}

Rows == 1..n_batch


(***************************************************************************)
(* Vocabulary.ids2string and its character table: the vocabulary is a      *)
(* collaborator outside the model file; it is modelled by its contract.    *)
(***************************************************************************)
id2char(id) ==
    CASE id = bos -> "<bos>"
      [] id = eos -> "<eos>"
      [] id = pad -> "<pad>"
      [] id = unk -> "<unk>"
      [] id = 4   -> "C"
      [] OTHER    -> "O"

ids2string(ids, rem_bos, rem_eos) ==
    LET a == IF rem_bos /\ Len(ids) > 0 /\ ids[1] = bos THEN Tail(ids) ELSE ids
        b == IF rem_eos /\ Len(a) > 0 /\ a[Len(a)] = eos
                THEN SubSeq(a, 1, Len(a) - 1) ELSE a
    IN  [k \in 1..Len(b) |-> id2char(b[k])]

\* VAE.tensor2string: tensor.tolist(), then ids2string(rem_bos=True, rem_eos=True)
tensor2string(tensor) == ids2string(tensor, TRUE, TRUE)

(***************************************************************************)
(* VAE.__init__                                                            *)
(***************************************************************************)
EncoderCellOk(cell) == cell = "gru"

DecoderCellOk_Unchecked(cell) == TRUE

DecoderCellOk(cell) == cell = "gru"

Construct ==
    /\ pc = "new"
    /\ IF ~EncoderCellOk(q_cell)
         THEN /\ error' = "ValueError: Invalid q_cell type"
              /\ built' = FALSE
              /\ pc' = "config_error"
         ELSE IF ~DecoderCellOk(d_cell)
         THEN /\ error' = "ValueError: Invalid d_cell type"
              /\ built' = FALSE
              /\ pc' = "config_error"
         ELSE /\ error' = error
              /\ built' = TRUE
              /\ pc' = "ready"
    /\ UNCHANGED <<q_cell, d_cell, sampleVars, driverVars, forwardVars, loadVars>>

(***************************************************************************)
(* VAE.sample                                                              *)
(***************************************************************************)
\* for i in range(1, max_len)
LoopContinues_EarlyExit(ii, ml, mask) ==
    ii < ml /\ \E b \in DOMAIN mask : ~mask[b]

LoopContinues(ii, ml, mask) == ii < ml

\* x[~eos_mask, i] = w[~eos_mask]
WriteTokens_Unmasked(buf, mask, wv, ii) ==
    [b \in DOMAIN buf |-> [buf[b] EXCEPT ![ii] = wv[b]]]

WriteTokens(buf, mask, wv, ii) ==
    [b \in DOMAIN buf |-> IF ~mask[b] THEN [buf[b] EXCEPT ![ii] = wv[b]] ELSE buf[b]]

\* i_eos_mask = ~eos_mask & (w == self.eos)
IEosMask_AnyRow(mask, wv) ==
    [b \in DOMAIN mask |-> ~mask[b] /\ \E c \in DOMAIN wv : wv[c] = eos]

IEosMask_Remask(mask, wv) == [b \in DOMAIN mask |-> wv[b] = eos]

IEosMask(mask, wv) == [b \in DOMAIN mask |-> ~mask[b] /\ wv[b] = eos]

\* end_pads[i_eos_mask] = i + 1
SetEndPads_NoPlusOne(ep, iem, ii) ==
    [b \in DOMAIN ep |-> IF iem[b] THEN ii ELSE ep[b]]

SetEndPads(ep, iem, ii) == [b \in DOMAIN ep |-> IF iem[b] THEN ii + 1 ELSE ep[b]]

\* eos_mask = eos_mask | i_eos_mask
OrMask(mask, iem) == [b \in DOMAIN mask |-> mask[b] \/ iem[b]]

\* x[i, :end_pads[i]]
Truncate_Whole(row, ep) == [k \in 1..Cardinality(DOMAIN row) |-> row[k - 1]]

Truncate(row, ep) == [k \in 1..ep |-> row[k - 1]]

\* the initial values of sample, lines "Initial values" up to the cycle
SampleBegin(n, ml) ==
    /\ n_batch' = n
    /\ max_len' = ml
    /\ w' = [b \in 1..n |-> bos]
    /\ x' = [b \in 1..n |-> [p \in 0..(ml - 1) |-> IF p = 0 THEN bos ELSE pad]]
    /\ end_pads' = [b \in 1..n |-> ml]
    /\ eos_mask' = [b \in 1..n |-> FALSE]
    /\ i' = 1
    /\ new_x' = <<>>
    /\ out' = <<>>
    /\ draws' = <<>>
    /\ pc' = "sample_loop"

CallSample ==
    /\ pc = "ready"
    /\ \E n \in 1..MaxDraws, ml \in 1..(MaxDraws + 1) :
          /\ n * (ml - 1) <= MaxDraws
          /\ SampleBegin(n, ml)
    /\ UNCHANGED <<configVars, error, driverVars, forwardVars, loadVars>>

\* the same call, within the smaller bound used under fairness
CallSampleShort ==
    /\ pc = "ready"
    /\ \E n \in 1..MaxFairDraws, ml \in 1..(MaxFairDraws + 1) :
          /\ n * (ml - 1) <= MaxFairDraws
          /\ SampleBegin(n, ml)
    /\ UNCHANGED <<configVars, error, driverVars, forwardVars, loadVars>>

\* one pass of the generating cycle with the drawn vector wv
GenerateStep(wv) ==
    LET i_eos_mask == IEosMask(eos_mask, wv)
    IN  /\ w' = wv
        /\ x' = WriteTokens(x, eos_mask, wv, i)
        /\ end_pads' = SetEndPads(end_pads, i_eos_mask, i)
        /\ eos_mask' = OrMask(eos_mask, i_eos_mask)
        /\ draws' = Append(draws, wv)
        /\ i' = i + 1
        /\ UNCHANGED <<n_batch, max_len, new_x, out>>

\* w = torch.multinomial(y, 1)[:, 0]: any vector of token ids
Generate ==
    /\ pc = "sample_loop"
    /\ sid = 0
    /\ LoopContinues(i, max_len, eos_mask)
    /\ \E wv \in [Rows -> Tokens] : GenerateStep(wv)
    /\ UNCHANGED <<pc, configVars, error, driverVars, forwardVars, loadVars>>

\* "Converting `x` to list of tensors" and the return statement
Convert ==
    /\ pc = "sample_loop"
    /\ ~LoopContinues(i, max_len, eos_mask)
    /\ new_x' = [b \in Rows |-> Truncate(x[b], end_pads[b])]
    /\ out' = [b \in Rows |-> tensor2string(Truncate(x[b], end_pads[b]))]
    /\ pc' = "sample_done"
    /\ UNCHANGED <<n_batch, max_len, i, w, x, end_pads, eos_mask, draws,
                   configVars, error, driverVars, forwardVars, loadVars>>


(***************************************************************************)
(* A driver that samples a batch of rows jointly and then every row alone  *)
(* (n_batch = 1), feeding each single-row call the tokens the joint call   *)
(* drew for that row at the same positions.                                *)
(***************************************************************************)
CallResult == [x |-> x, eos_mask |-> eos_mask, end_pads |-> end_pads,
               new_x |-> new_x, out |-> out, draws |-> draws]

JointRows == IF joint = <<>> THEN 0 ELSE Cardinality(DOMAIN joint[1].x)

CallSampleJoint ==
    /\ pc = "ready"
    /\ \E n \in 2..MaxJointBatch, ml \in 1..(MaxDraws + 1) :
          /\ n * (ml - 1) <= MaxDraws
          /\ SampleBegin(n, ml)
    /\ UNCHANGED <<configVars, error, driverVars, forwardVars, loadVars>>

\* the call returned: keep its result and sample the next row alone
NextSolo ==
    /\ pc = "sample_done"
    /\ joint' = IF sid = 0 THEN <<CallResult>> ELSE joint
    /\ solo' = IF sid = 0 THEN solo ELSE Append(solo, CallResult)
    /\ IF sid < (IF sid = 0 THEN n_batch ELSE JointRows)
         THEN /\ sid' = sid + 1
              /\ SampleBegin(1, max_len)
         ELSE /\ pc' = "driver_done"
              /\ UNCHANGED <<sid, sampleVars>>
    /\ UNCHANGED <<configVars, error, forwardVars, loadVars>>

\* the same draw as the joint call made for row sid at position i
GenerateReplay ==
    /\ pc = "sample_loop"
    /\ sid > 0
    /\ LoopContinues(i, max_len, eos_mask)
    /\ GenerateStep(<<joint[1].draws[i][sid]>>)
    /\ UNCHANGED <<pc, configVars, error, driverVars, forwardVars, loadVars>>

(***************************************************************************)
(* VAE.forward                                                             *)
(***************************************************************************)
RECURSIVE SeqsOver(_, _)
SeqsOver(S, n) ==
    IF n = 0 THEN {<<>>}
    ELSE LET shorter == SeqsOver(S, n - 1)
         IN  shorter \cup {Append(s, e) : s \in {t \in shorter : Len(t) = n - 1}, e \in S}

\* string2tensor: string2ids(string, add_bos=True, add_eos=True)
Sentences == {<<bos>> \o c \o <<eos>> : c \in SeqsOver(ContentTokens, MaxContent)}

\* pack_sequence accepts a list sorted by decreasing length
SortedByLength(b) == \A k \in 1..(Len(b) - 1) : Len(b[k]) >= Len(b[k + 1])

ValidBatches ==
    {b \in UNION {[1..n -> Sentences] : n \in 1..MaxFwdBatch} : SortedByLength(b)}

MaxOf(S) == CHOOSE m \in S : \A e \in S : e <= m

\* nn.utils.rnn.pad_sequence(x, batch_first=True, padding_value=self.pad)
pad_sequence(b) ==
    LET width == MaxOf({Len(b[k]) : k \in DOMAIN b})
    IN  [k \in DOMAIN b |->
            [p \in 0..(width - 1) |-> IF p < Len(b[k]) THEN b[k][p + 1] ELSE pad]]

\* F.cross_entropy(y[:, :-1], x[:, 1:], ignore_index=self.pad): the rows of
\* the flattened shifted batch that are not ignored
LossPositions(xp) ==
    UNION {{<<b, p - 1>> : p \in {q \in DOMAIN xp[b] : q >= 1 /\ xp[b][q] # pad}} :
              b \in DOMAIN xp}

\* def compute_loss(x, y): the number of parameters it declares
compute_loss_params == 2
\* self.compute_loss(x, pred): a bound method call passes self, x and pred
compute_loss_args == 3

\* Python binds a call only if the positional arguments fit the parameters
CallBinds(nargs, nparams) == nargs = nparams

CallForward ==
    /\ pc = "ready"
    /\ \E b \in ValidBatches : fx' = b
    /\ pc' = "fwd_encoder"
    /\ UNCHANGED <<configVars, error, sampleVars, driverVars, loadVars,
                   xpad, pred, kl_loss, recon_loss, contrib>>

\* z, kl_loss = self.forward_encoder(x)
ForwardEncoder ==
    /\ pc = "fwd_encoder"
    /\ kl_loss' = "scalar"
    /\ pc' = "fwd_decoder"
    /\ UNCHANGED <<configVars, error, sampleVars, driverVars, loadVars,
                   fx, xpad, pred, recon_loss, contrib>>

\* pred = self.forward_decoder(x, z): teacher forced on the padded batch
ForwardDecoder ==
    /\ pc = "fwd_decoder"
    /\ xpad' = pad_sequence(fx)
    /\ pred' = <<Len(fx), MaxOf({Len(fx[k]) : k \in DOMAIN fx})>>
    /\ pc' = "fwd_loss"
    /\ UNCHANGED <<configVars, error, sampleVars, driverVars, loadVars,
                   fx, kl_loss, recon_loss, contrib>>

\* recon_loss = self.compute_loss(x, pred); return kl_loss, recon_loss
ComputeLoss ==
    /\ pc = "fwd_loss"
    /\ IF CallBinds(compute_loss_args, compute_loss_params)
         THEN /\ contrib' = LossPositions(xpad)
              /\ recon_loss' = "scalar"
              /\ pc' = "fwd_returned"
              /\ error' = error
         ELSE /\ error' = "TypeError: compute_loss() takes 2 positional arguments but 3 were given"
              /\ pc' = "fwd_raised"
              /\ UNCHANGED <<contrib, recon_loss>>
    /\ UNCHANGED <<configVars, sampleVars, driverVars, loadVars, fx, xpad, pred, kl_loss>>

(***************************************************************************)
(* VAE.load_lbann_weights                                                  *)
(*                                                                         *)
(* A weight file is named by the epoch of the dump, the role tag of the    *)
(* tensor and, for a recurrent tensor, the layer index and the tag of      *)
(* param_idx.  glob.glob lists the matches of a pattern in the order of    *)
(* the directory, so the directory is a sequence.  The layer counts of the *)
(* config are read by no other modelled call: they are chosen when         *)
(* load_lbann_weights is entered.                                          *)
(***************************************************************************)
\* param_idx = ["_ih_matrix", "_hh_matrix", "_ih_bias", "_hh_bias"]
param_idx == <<"_ih_matrix", "_hh_matrix", "_ih_bias", "_hh_bias">>

\* epochs a dump in the directory can be of
Epochs == {1, 10}

WeightFile(e, role, l, val) == [epoch |-> e, role |-> role, layer |-> l, val |-> val]

\* the role tags of the tensors that are not recurrent
PlainRoles ==
    <<"emb_matrix", "qlogvar_matrix", "qlogvar_bias", "qmu_matrix", "qmu_bias",
      "decoder_lat_matrix", "decoder_lat_bias", "decoder_fc_matrix", "decoder_fc_bias">>

\* q_n_layers, q_bidir, d_n_layers; q_in_eq: d_emb = q_d_h * directions, so
\* that the input weights of every encoder layer have one shape
LayerConfigs ==
    [q_n_layers : 1..MaxLayers, q_bidir : BOOLEAN, d_n_layers : 1..MaxLayers,
     q_in_eq : BOOLEAN]

\* the recurrent files of one dump: four per layer, layers ascending or not
RnnFiles(e, role, n, desc) ==
    [k \in 1..(4 * n) |->
        LET l == (k - 1) \div 4
        IN  WeightFile(e, role, IF desc THEN n - 1 - l ELSE l,
                       param_idx[((k - 1) % 4) + 1])]

\* the files one epoch of training dumps for a model of these layer counts
EpochDump(e, cfg, desc) ==
    [k \in 1..Len(PlainRoles) |-> WeightFile(e, PlainRoles[k], 0, "")]
        \o RnnFiles(e, "encoder_rnn", cfg.q_n_layers, desc)
        \o RnnFiles(e, "decoder_rnn", cfg.d_n_layers, desc)

RECURSIVE DumpOf(_, _, _)
DumpOf(es, cfg, desc) ==
    IF es = <<>> THEN <<>>
    ELSE EpochDump(Head(es), cfg, desc) \o DumpOf(Tail(es), cfg, desc)

EpochSeqs ==
    {<<>>} \cup {<<e>> : e \in Epochs}
           \cup {s \in Epochs \X Epochs : s[1] # s[2]}

Without(seq, k) ==
    IF k = 0 THEN seq ELSE SubSeq(seq, 1, k - 1) \o SubSeq(seq, k + 1, Len(seq))

\* directories: the dumps of zero, one or two epochs, complete or lacking a file
Directories(cfg) ==
    UNION {{Without(DumpOf(es, cfg, desc), k) : k \in 0..Len(DumpOf(es, cfg, desc))} :
              es \in EpochSeqs, desc \in BOOLEAN}

\* "*.epoch." + str(epoch_count) + "*": the digits of epoch_count, then anything
RECURSIVE DecPrefix(_, _)
DecPrefix(p, e) == e = p \/ (e >= 10 /\ DecPrefix(p, e \div 10))

\* if epoch_count < 0: epoch_count = "*"
EpochMatches(ec, e) == ec < 0 \/ DecPrefix(ec, e)

\* a pattern names the role and tag; layer -1 stands for no index or "*"
Matches(ec, pat, f) ==
    /\ EpochMatches(ec, f.epoch)
    /\ f.role = pat.role
    /\ f.val = pat.val
    /\ (pat.layer < 0 \/ f.layer % 10 = pat.layer)

\* glob.glob(weights_dir + pattern)
glob(dir, ec, pat) == SelectSeq(dir, LAMBDA f : Matches(ec, pat, f))

PlainStep(module, field, role) ==
    [param |-> <<module, 0, field>>, pat |-> [role |-> role, val |-> "", layer |-> -1]]

\* for l in range(self.encoder_rnn.num_layers): the pattern has no str(l)
EncoderSteps(cfg) ==
    [k \in 1..(4 * cfg.q_n_layers) |->
        LET l == (k - 1) \div 4
            val == param_idx[((k - 1) % 4) + 1]
        IN  [param |-> <<"encoder_rnn", l, val>>,
             pat |-> [role |-> "encoder_rnn", val |-> val, layer |-> -1]]]

\* for l in range(self.decoder_rnn.num_layers): the pattern has str(l)
DecoderSteps(cfg) ==
    [k \in 1..(4 * cfg.d_n_layers) |->
        LET l == (k - 1) \div 4
            val == param_idx[((k - 1) % 4) + 1]
        IN  [param |-> <<"decoder_rnn", l, val>>,
             pat |-> [role |-> "decoder_rnn", val |-> val, layer |-> l]]]

\* the loads of load_lbann_weights in the order of the code
LoadPlan(cfg) ==
    <<PlainStep("x_emb", "weight", "emb_matrix"),
      PlainStep("q_logvar", "weight", "qlogvar_matrix"),
      PlainStep("q_logvar", "bias", "qlogvar_bias"),
      PlainStep("q_mu", "weight", "qmu_matrix"),
      PlainStep("q_mu", "bias", "qmu_bias"),
      PlainStep("decoder_lat", "weight", "decoder_lat_matrix"),
      PlainStep("decoder_lat", "bias", "decoder_lat_bias")>>
        \o EncoderSteps(cfg)
        \o DecoderSteps(cfg)
        \o <<PlainStep("decoder_fc", "weight", "decoder_fc_matrix"),
             PlainStep("decoder_fc", "bias", "decoder_fc_bias")>>

\* rows of encoder_rnn.all_weights: one per layer and direction
EncoderRows(cfg) == 0..(cfg.q_n_layers * (IF cfg.q_bidir THEN 2 ELSE 1) - 1)

LayerOfRow(cfg, r) == IF cfg.q_bidir THEN r \div 2 ELSE r

ParamTags == {param_idx[k] : k \in DOMAIN param_idx}

\* every parameter tensor of the embedding, the encoder and the decoder
AllParams(cfg) ==
    {<<"x_emb", 0, "weight">>}
        \cup ({"q_logvar", "q_mu", "decoder_lat", "decoder_fc"} \X {0} \X {"weight", "bias"})
        \cup ({"encoder_rnn"} \X EncoderRows(cfg) \X ParamTags)
        \cup ({"decoder_rnn"} \X (0..(cfg.d_n_layers - 1)) \X ParamTags)

\* copy_ raises unless the shapes fit: the input weights of the encoder's
\* first layer are d_emb wide, those of the other layers q_d_h * directions
ShapeFits(cfg, param, f) ==
    (param[1] = "encoder_rnn" /\ param[3] = "_ih_matrix") =>
        (cfg.q_in_eq \/ ((LayerOfRow(cfg, param[2]) = 0) <=> (f.layer = 0)))

CallLoad ==
    /\ pc = "ready"
    /\ \E cfg \in LayerConfigs :
          /\ layers' = cfg
          /\ \E dir \in Directories(cfg) : weights_dir' = dir
          /\ params' = [p \in AllParams(cfg) |-> <<>>]
    /\ \E ec \in {-1} \cup Epochs : epoch_count' = ec
    /\ lstep' = 1
    /\ pc' = "load"
    /\ UNCHANGED <<configVars, error, sampleVars, driverVars, forwardVars>>

\* np.loadtxt(glob.glob(...)[0]) and the copy_ into the parameter
LoadTensor ==
    /\ pc = "load"
    /\ lstep <= Len(LoadPlan(layers))
    /\ LET step == LoadPlan(layers)[lstep]
           found == glob(weights_dir, epoch_count, step.pat)
       IN  IF found = <<>>
             THEN /\ error' = "IndexError: list index out of range"
                  /\ pc' = "load_raised"
                  /\ UNCHANGED <<lstep, params>>
             ELSE IF ~ShapeFits(layers, step.param, found[1])
             THEN /\ error' = "RuntimeError: shape mismatch"
                  /\ pc' = "load_raised"
                  /\ UNCHANGED <<lstep, params>>
             ELSE /\ params' = [params EXCEPT ![step.param] = <<found[1]>>]
                  /\ lstep' = lstep + 1
                  /\ UNCHANGED <<pc, error>>
    /\ UNCHANGED <<configVars, sampleVars, driverVars, forwardVars,
                   layers, weights_dir, epoch_count>>

\* print("DONE loading LBANN weights ")
LoadReturn ==
    /\ pc = "load"
    /\ lstep > Len(LoadPlan(layers))
    /\ pc' = "load_done"
    /\ UNCHANGED <<configVars, error, sampleVars, driverVars, forwardVars, loadVars>>

(***************************************************************************)
(* Specifications                                                          *)
(***************************************************************************)
Init ==
    /\ pc = "new"
    /\ q_cell \in CellTypes
    /\ d_cell \in CellTypes
    /\ built = FALSE
    /\ error = ""
    /\ n_batch = 0 /\ max_len = 0 /\ i = 0
    /\ w = <<>> /\ x = <<>> /\ end_pads = <<>> /\ eos_mask = <<>>
    /\ new_x = <<>> /\ out = <<>> /\ draws = <<>>
    /\ sid = 0 /\ joint = <<>> /\ solo = <<>>
    /\ fx = <<>> /\ xpad = <<>> /\ pred = <<>>
    /\ kl_loss = "none" /\ recon_loss = "none" /\ contrib = {}
    /\ layers = <<>> /\ weights_dir = <<>> /\ epoch_count = 0
    /\ lstep = 0 /\ params = <<>>

Next ==
    \/ Construct
    \/ CallSample
    \/ Generate
    \/ Convert
    \/ CallForward
    \/ ForwardEncoder
    \/ ForwardDecoder
    \/ ComputeLoss

Spec == Init /\ [][Next]_vars

NextFair ==
    \/ Construct
    \/ CallSampleShort
    \/ Generate
    \/ Convert

\* sample is a straight-line loop on one thread: a pass that can run, runs
FairSpec == Init /\ [][NextFair]_vars /\ WF_vars(NextFair)

NextBatch ==
    \/ Construct
    \/ CallSampleJoint
    \/ Generate
    \/ Convert
    \/ NextSolo
    \/ GenerateReplay

SpecBatch == Init /\ [][NextBatch]_vars

NextLoad ==
    \/ Construct
    \/ CallLoad
    \/ LoadTensor
    \/ LoadReturn

SpecLoad == Init /\ [][NextLoad]_vars


(***************************************************************************)
(* Properties of VAE.sample                                                *)
(***************************************************************************)
InSample == pc \in {"sample_loop", "sample_done"}

\* row b drew eos at step t and at no earlier step
FirstEosAt(b, t) ==
    /\ t \in 1..Len(draws)
    /\ draws[t][b] = eos
    /\ \A k \in 1..(t - 1) : draws[k][b] # eos

\* C1: a row whose first eos was drawn at step t hands the vocabulary
\* exactly bos and the tokens drawn at steps 1..t, nothing drawn after t;
\* and end_pads never exceeds max_len, during the cycle and at return.
C1_NoTokenAfterEos ==
    /\ InSample => \A b \in Rows : end_pads[b] <= max_len
    /\ pc = "sample_done" =>
          \A b \in Rows : \A t \in 1..Len(draws) :
              FirstEosAt(b, t) =>
                  /\ Len(new_x[b]) = t + 1
                  /\ new_x[b][1] = bos
                  /\ \A k \in 1..t : new_x[b][k + 1] = draws[k][b]

C1_Witness ==
    /\ pc = "sample_done"
    /\ \E b \in Rows : \E t \in 1..Len(draws) :
          /\ FirstEosAt(b, t)
          /\ t + 1 < Len(draws)
          /\ draws[t + 1][b] \notin {eos, pad}

\* C2: a row that is not ended and draws eos in the pass with loop value i
\* is ended by that same pass, its end_pads becomes exactly i + 1, and the
\* buffer cut at end_pads has that eos as its last element.
C2_EosEndsRowAtStepPlusOne ==
    [][\A b \in Rows :
          (pc = "sample_loop" /\ i' = i + 1 /\ ~eos_mask[b] /\ w'[b] = eos) =>
              /\ i \in 1..(max_len - 1)
              /\ eos_mask'[b]
              /\ end_pads'[b] = i + 1
              /\ Len(Truncate(x'[b], end_pads'[b])) = i + 1
              /\ Truncate(x'[b], end_pads'[b])[i + 1] = eos]_vars

C2_Witness ==
    /\ pc = "sample_loop"
    /\ \E b \in Rows :
          /\ eos_mask[b]
          /\ w[b] = eos
          /\ end_pads[b] = i
          /\ end_pads[b] < max_len
          /\ x[b][i - 1] = eos

\* the first step at which row b drew eos, 0 if it never did
FirstEos(b) ==
    IF \E t \in 1..Len(draws) : FirstEosAt(b, t)
       THEN CHOOSE t \in 1..Len(draws) : FirstEosAt(b, t)
       ELSE 0

\* C3 as stated: max_len = 5 and eos drawn at step 2 for every row gives
\* end_pads = 2 and an empty output string for every row.
C3_AsStated ==
    (pc = "sample_done" /\ max_len = 5 /\ \A b \in Rows : draws[2][b] = eos) =>
        \A b \in Rows : end_pads[b] = 2 /\ out[b] = <<>>

\* C3 amended: with max_len = 5, a row whose first eos is drawn at step 2
\* gets end_pads = 3 and an output of exactly one character, the one of the
\* token drawn at step 1; end_pads = 2 with an empty output is the result
\* of drawing eos at step 1.
C3_EosAtStepTwo ==
    (pc = "sample_done" /\ max_len = 5) =>
        \A b \in Rows :
            /\ FirstEos(b) = 2 =>
                  /\ end_pads[b] = 3
                  /\ new_x[b] = <<bos, draws[1][b], eos>>
                  /\ out[b] = <<id2char(draws[1][b])>>
            /\ FirstEos(b) = 1 => (end_pads[b] = 2 /\ out[b] = <<>>)
            /\ (end_pads[b] = 2 /\ out[b] = <<>>) => FirstEos(b) = 1

C3_Witness ==
    /\ pc = "sample_done"
    /\ max_len = 5
    /\ \A b \in Rows : FirstEos(b) = 2 /\ end_pads[b] = 3 /\ Len(out[b]) = 1

\* C4: once a row is ended a pass of the cycle leaves its whole buffer as
\* it was, and every position at or after its end_pads holds pad.
C4_EndedRowFrozen ==
    [][\A b \in Rows :
          (pc = "sample_loop" /\ pc' = "sample_loop" /\ eos_mask[b]) =>
              /\ x'[b] = x[b]
              /\ end_pads'[b] = end_pads[b]
              /\ \A p \in end_pads[b]..(max_len - 1) :
                    x[b][p] = pad /\ x'[b][p] = pad]_vars

C4_Witness ==
    /\ pc = "sample_loop"
    /\ \E b \in Rows :
          /\ eos_mask[b]
          /\ end_pads[b] + 1 < i
          /\ w[b] \notin {eos, pad}
          /\ x[b][i - 1] = pad


\* C5 as stated: no character of a returned string is the character of
\* bos, eos or pad, whatever tokens were drawn.
C5_NoMarkerInOutput ==
    pc = "sample_done" =>
        \A b \in Rows :
            /\ new_x[b] = Truncate(x[b], end_pads[b])
            /\ \A k \in 1..Len(out[b]) :
                  out[b][k] \notin {id2char(bos), id2char(eos), id2char(pad)}

\* C6: once the generating cycle is entered the call returns, and when it
\* returns it has run exactly max_len - 1 passes (i = 1 .. max_len - 1),
\* also when every row ended earlier.
C6_LoopRunsMaxLenSteps ==
    /\ (pc = "sample_loop") ~> (pc = "sample_done")
    /\ [](pc = "sample_done" => (Len(draws) = max_len - 1 /\ i = max_len))

C6_Witness ==
    /\ pc = "sample_done"
    /\ n_batch >= 2
    /\ Len(draws) = max_len - 1
    /\ \A b \in Rows : eos_mask[b] /\ end_pads[b] < max_len

(***************************************************************************)
(* Batch independence                                                      *)
(***************************************************************************)
\* C7: every row sampled alone on the draws the joint call made for it has
\* the buffer, ended flag, end position, truncated ids and string that the
\* joint call produced for that row.
C7_BatchIndependence ==
    \A s \in 1..Len(solo) :
        /\ solo[s].x[1] = joint[1].x[s]
        /\ solo[s].eos_mask[1] = joint[1].eos_mask[s]
        /\ solo[s].end_pads[1] = joint[1].end_pads[s]
        /\ solo[s].new_x[1] = joint[1].new_x[s]
        /\ solo[s].out[1] = joint[1].out[s]

C7_Witness ==
    /\ pc = "driver_done"
    /\ Len(solo) = JointRows
    /\ \E a, b \in 1..Len(solo) :
          /\ joint[1].eos_mask[a]
          /\ joint[1].end_pads[a] < max_len
          /\ ~joint[1].eos_mask[b]
          /\ solo[a].eos_mask[1]
          /\ ~solo[b].eos_mask[1]

(***************************************************************************)
(* Properties of VAE.forward                                               *)
(***************************************************************************)
\* C8 as stated: forward on a valid batch runs encoder, decoder and loss
\* and returns (kl_loss, recon_loss) without raising.
C8_ForwardReturnsLosses ==
    /\ pc # "fwd_raised"
    /\ pc \in {"fwd_encoder", "fwd_decoder", "fwd_loss", "fwd_returned"} => error = ""

\* C9 as stated: when forward is over, the pairs that entered the loss are
\* exactly the shifted positions whose target token is not pad.
C9_LossOverNonPadTargets ==
    pc \in {"fwd_returned", "fwd_raised"} =>
        contrib = {<<b, t>> \in (DOMAIN xpad) \X (0..(MaxContent + 1)) :
                      (t + 1) \in DOMAIN xpad[b] /\ xpad[b][t + 1] # pad}

(***************************************************************************)
(* Properties of VAE.__init__                                              *)
(***************************************************************************)
\* C10: with q_cell or d_cell other than "gru" the construction raises a
\* ValueError and no model exists, so no encode, decode or sample call is
\* ever entered; with both "gru" the construction yields the model.
C10_CellTypeCheckedAtConstruction ==
    /\ (q_cell # "gru" \/ d_cell # "gru") =>
          /\ ~built
          /\ pc \in {"new", "config_error"}
          /\ pc = "config_error" =>
                error \in {"ValueError: Invalid q_cell type",
                           "ValueError: Invalid d_cell type"}
    /\ (q_cell = "gru" /\ d_cell = "gru" /\ pc # "new") =>
          /\ built
          /\ pc # "config_error"

C10_Witness ==
    /\ pc = "config_error"
    /\ q_cell = "gru"
    /\ d_cell # "gru"
    /\ error = "ValueError: Invalid d_cell type"


(***************************************************************************)
(* The invariant of the generating cycle                                   *)
(***************************************************************************)
\* what holds of row b after the passes i = 1 .. t of the cycle
RowAfter(b, t) ==
    /\ x[b][0] = bos
    /\ ~eos_mask[b] =>
          /\ end_pads[b] = max_len
          /\ \A p \in 1..t : x[b][p] # eos
    /\ eos_mask[b] =>
          /\ end_pads[b] <= t + 1
          /\ end_pads[b] >= 2
          /\ x[b][end_pads[b] - 1] = eos
          /\ \A p \in 1..(end_pads[b] - 2) : x[b][p] # eos

CycleInv == InSample => \A b \in Rows : RowAfter(b, i - 1)

\* C14: after every pass of the cycle, position 0 of each row is bos; a row
\* that is not ended has end_pads = max_len and no eos in positions 1..t; an
\* ended row has end_pads <= t + 1, eos at position end_pads - 1 and no eos
\* before it; and an ended row stays ended with the same end_pads.
C14_CycleInvariant ==
    [][/\ CycleInv
       /\ CycleInv'
       /\ (InSample /\ InSample') =>
             \A b \in Rows :
                 eos_mask[b] => (eos_mask'[b] /\ end_pads'[b] = end_pads[b])]_vars

C14_Witness ==
    /\ pc = "sample_loop"
    /\ i >= 4
    /\ \E a, b \in Rows :
          /\ eos_mask[a]
          /\ end_pads[a] + 1 < i
          /\ w[a] = eos
          /\ ~eos_mask[b]
          /\ end_pads[b] = max_len
          /\ x[b][i - 1] \notin {eos, pad}


(***************************************************************************)
(* Properties of VAE.load_lbann_weights                                    *)
(***************************************************************************)
LoadOver == pc \in {"load_done", "load_raised"}

\* every pattern the call asks for matches exactly one file of the directory
ExactlyOneEach ==
    \A k \in DOMAIN LoadPlan(layers) :
        Len(glob(weights_dir, epoch_count, LoadPlan(layers)[k].pat)) = 1

\* C11 as stated: the call returns only if every required pattern matches
\* exactly one file (a pattern with no match or with several makes it fail),
\* and a lookup error means that some pattern did not match exactly one.
C11_FailsUnlessOneMatchEach ==
    /\ pc = "load_done" => ExactlyOneEach
    /\ (pc = "load_raised" /\ error = "IndexError: list index out of range") =>
          ~ExactlyOneEach

\* C12 as stated: after a successful return every parameter tensor has
\* been overwritten, and each recurrent tensor from a file of its own layer.
C12_AllParamsFromOwnLayer ==
    pc = "load_done" =>
        \A p \in AllParams(layers) :
            /\ params[p] # <<>>
            /\ p[1] = "encoder_rnn" => params[p][1].layer = LayerOfRow(layers, p[2])
            /\ p[1] = "decoder_rnn" => params[p][1].layer = p[2]

\* C13 as stated: when the call fails, no parameter has been overwritten.
C13_FailedLoadLeavesParams ==
    pc = "load_raised" => \A p \in AllParams(layers) : params[p] = <<>>

====
